---- MODULE Spec2Model ----
(***************************************************************************)
(* Model of kern/thread/synch.c (OS/161): counting semaphore, lock and     *)
(* condition variable built on splhigh/splx and thread_sleep/thread_wakeup *)
(* on a single processor.                                                  *)
(*                                                                         *)
(* Every statement of a primitive that touches shared state is one step.   *)
(* A thread may take a step only when it is not asleep and no other thread *)
(* is running with interrupts off.                                         *)
(***************************************************************************)
EXTENDS Integers, Sequences, FiniteSets, TLC

\* ---------------------------------------------------------------- bounds
NumThreads == 3
MaxInit == 1
MaxV == 2

Threads == 1..NumThreads

\* ------------------------------------------------------------- addresses
\* NULL, and the sleep addresses: a thread's own address is its id.
NULL == 0
LockAddr == NumThreads + 1
SemAddr == NumThreads + 2

VARIABLES
    sem_count,      \* sem->count
    sem_init,       \* initial_count given to sem_create
    sem_freed,      \* sem_destroy has freed the semaphore
    vDone,          \* number of V calls that have returned
    pDone,          \* number of P calls that have returned
    lock_occupied,  \* lock->lock_occupied
    lock_holder,    \* lock->lock_holder (NULL or a thread)
    lock_freed,     \* lock_destroy has freed the lock
    cv_count,       \* cv->count
    thread_queue,   \* cv->thread_queue
    pc,             \* per thread: the statement it executes next
    frames,         \* per thread: return points of the nested calls
    saved,          \* per thread: the `spl` locals of the active frames
    curspl,         \* per thread: its interrupt level (0 = enabled)
    sleepaddr,      \* per thread: the address it sleeps on, or NULL
    next_thread,    \* per thread: cv_signal's local next_thread
    cur,            \* the thread running with interrupts off, or NULL
    panicked,       \* an assertion has failed (kernel panic)
    holding,        \* per thread: a lock_acquire of it has returned and
                    \* no lock_release of it has returned since
    arrivals,       \* threads in the order their cv_wait masked interrupts,
                    \* until a cv_signal wakes them
    ev              \* the call that returned in the last step, if any

semVars == <<sem_count, sem_init, sem_freed, vDone, pDone>>
lockVars == <<lock_occupied, lock_holder, lock_freed>>
cvVars == <<cv_count, thread_queue>>
thrVars == <<pc, frames, saved, curspl, sleepaddr, next_thread, cur>>
vars == <<semVars, lockVars, cvVars, thrVars, panicked, holding, arrivals, ev>>

NoEv == [op |-> "none", t |-> NULL]
Ret(o, t) == [op |-> o, t |-> t]

\* -------------------------------------------------- scheduler interface
\* The system has stopped: panic, or a primitive has been freed.
Halted == panicked \/ lock_freed \/ sem_freed

\* t can execute its next statement.
Runnable(t) ==
    /\ ~Halted
    /\ sleepaddr[t] = NULL
    /\ cur \in {NULL, t}

\* Who holds the processor after t's step: t, if it still runs with
\* interrupts off; nobody in particular otherwise.
Sched(t, level, asleep) == IF asleep \/ level = 0 THEN NULL ELSE t

\* splhigh(): returns the old level (kept in the frame's spl) and masks.
splhigh(t) ==
    /\ saved' = [saved EXCEPT ![t] = <<curspl[t]>> \o @]
    /\ curspl' = [curspl EXCEPT ![t] = 1]
    /\ cur' = t

\* splx(spl): sets the level to the frame's saved value.
splx(t) ==
    /\ curspl' = [curspl EXCEPT ![t] = Head(saved[t])]
    /\ saved' = [saved EXCEPT ![t] = Tail(@)]
    /\ cur' = Sched(t, Head(saved[t]), FALSE)

\* thread_sleep(addr): the caller sleeps on addr and gives up the processor.
thread_sleep(t, addr) ==
    /\ sleepaddr' = [sleepaddr EXCEPT ![t] = addr]
    /\ cur' = NULL

\* thread_wakeup(addr): every thread sleeping on addr becomes runnable.
thread_wakeup(addr) ==
    sleepaddr' = [u \in Threads |->
                    IF sleepaddr[u] = addr THEN NULL ELSE sleepaddr[u]]

\* thread_hassleepers(addr)
thread_hassleepers(addr) == \E u \in Threads : sleepaddr[u] = addr

\* Return from the current function: to the caller's next statement.
ReturnPc(t) == IF frames[t] = <<>> THEN "idle" ELSE Head(frames[t])
PopFrame(t) == IF frames[t] = <<>> THEN <<>> ELSE Tail(frames[t])

\* kernel panic on a failed assertion: nothing else changes.
Panic ==
    /\ panicked' = TRUE
    /\ ev' = NoEv
    /\ UNCHANGED <<semVars, lockVars, cvVars, thrVars, holding, arrivals>>

\* The state after sem_create(initial_count), lock_create and cv_create.
Created(initial_count) ==
    /\ sem_init = initial_count
    /\ sem_count = sem_init
    /\ sem_freed = FALSE
    /\ vDone = 0
    /\ pDone = 0
    /\ lock_occupied = 0
    /\ lock_holder = NULL
    /\ lock_freed = FALSE
    /\ cv_count = 0
    /\ thread_queue = <<>>
    /\ pc = [t \in Threads |-> "idle"]
    /\ frames = [t \in Threads |-> <<>>]
    /\ saved = [t \in Threads |-> <<>>]
    /\ curspl = [t \in Threads |-> 0]
    /\ sleepaddr = [t \in Threads |-> NULL]
    /\ next_thread = [t \in Threads |-> NULL]
    /\ cur = NULL
    /\ panicked = FALSE
    /\ holding = [t \in Threads |-> FALSE]
    /\ arrivals = <<>>
    /\ ev = NoEv

\* sem_create asserts initial_count >= 0.
InitSem == \E n \in 0..MaxInit : Created(n)

InitLock == Created(0)

\* ------------------------------------------------------------ semaphore
\* P, lines 63-77: the asserts read no shared state; splhigh().
P_call(t) ==
    /\ Runnable(t) /\ pc[t] = "idle"
    /\ splhigh(t)
    /\ pc' = [pc EXCEPT ![t] = "p_while"]
    /\ ev' = NoEv
    /\ UNCHANGED <<semVars, lockVars, cvVars, frames, sleepaddr, next_thread,
                   panicked, holding, arrivals>>

\* lines 78-80: while (sem->count==0) thread_sleep(sem);
P_while(t) ==
    /\ Runnable(t) /\ pc[t] = "p_while"
    /\ IF sem_count = 0
          THEN /\ thread_sleep(t, SemAddr)
               /\ pc' = pc
          ELSE /\ pc' = [pc EXCEPT ![t] = "p_dec"]
               /\ cur' = t
               /\ sleepaddr' = sleepaddr
    /\ ev' = NoEv
    /\ UNCHANGED <<semVars, lockVars, cvVars, frames, saved, curspl,
                   next_thread, panicked, holding, arrivals>>

\* P with the decrement left out.
P_dec_missing(t) ==
    /\ Runnable(t) /\ pc[t] = "p_dec"
    /\ pc' = [pc EXCEPT ![t] = "p_splx"]
    /\ ev' = NoEv
    /\ UNCHANGED <<semVars, lockVars, cvVars, frames, saved, curspl,
                   sleepaddr, next_thread, cur, panicked, holding, arrivals>>

\* lines 81-82: assert(sem->count>0); sem->count--;
P_dec(t) ==
    /\ Runnable(t) /\ pc[t] = "p_dec"
    /\ IF sem_count > 0
          THEN /\ sem_count' = sem_count - 1
               /\ pc' = [pc EXCEPT ![t] = "p_splx"]
               /\ ev' = NoEv
               /\ UNCHANGED <<sem_init, sem_freed, vDone, pDone, lockVars,
                              cvVars, frames, saved, curspl, sleepaddr,
                              next_thread, cur, panicked, holding, arrivals>>
          ELSE Panic

\* line 83: splx(spl); return.
P_splx(t) ==
    /\ Runnable(t) /\ pc[t] = "p_splx"
    /\ splx(t)
    /\ pc' = [pc EXCEPT ![t] = "idle"]
    /\ pDone' = pDone + 1
    /\ ev' = Ret("P", t)
    /\ UNCHANGED <<sem_count, sem_init, sem_freed, vDone, lockVars, cvVars,
                   frames, sleepaddr, next_thread, panicked, holding,
                   arrivals>>

\* V calls in progress
InV == {u \in Threads : pc[u] \in {"v_inc", "v_wakeup", "v_splx"}}

\* V, lines 86-91: splhigh().
V_call(t) ==
    /\ Runnable(t) /\ pc[t] = "idle"
    /\ vDone + Cardinality(InV) < MaxV
    /\ splhigh(t)
    /\ pc' = [pc EXCEPT ![t] = "v_inc"]
    /\ ev' = NoEv
    /\ UNCHANGED <<semVars, lockVars, cvVars, frames, sleepaddr, next_thread,
                   panicked, holding, arrivals>>

\* lines 92-93: sem->count++; assert(sem->count>0);
V_inc(t) ==
    /\ Runnable(t) /\ pc[t] = "v_inc"
    /\ IF sem_count + 1 > 0
          THEN /\ sem_count' = sem_count + 1
               /\ pc' = [pc EXCEPT ![t] = "v_wakeup"]
               /\ ev' = NoEv
               /\ UNCHANGED <<sem_init, sem_freed, vDone, pDone, lockVars,
                              cvVars, frames, saved, curspl, sleepaddr,
                              next_thread, cur, panicked, holding, arrivals>>
          ELSE Panic

\* V without the wakeup.
V_wakeup_missing(t) ==
    /\ Runnable(t) /\ pc[t] = "v_wakeup"
    /\ pc' = [pc EXCEPT ![t] = "v_splx"]
    /\ ev' = NoEv
    /\ UNCHANGED <<semVars, lockVars, cvVars, frames, saved, curspl,
                   sleepaddr, next_thread, cur, panicked, holding, arrivals>>

\* V waking one sleeper only.
V_wakeup_one(t) ==
    /\ Runnable(t) /\ pc[t] = "v_wakeup"
    /\ IF thread_hassleepers(SemAddr)
          THEN \E u \in Threads :
                  /\ sleepaddr[u] = SemAddr
                  /\ sleepaddr' = [sleepaddr EXCEPT ![u] = NULL]
          ELSE sleepaddr' = sleepaddr
    /\ pc' = [pc EXCEPT ![t] = "v_splx"]
    /\ ev' = NoEv
    /\ UNCHANGED <<semVars, lockVars, cvVars, frames, saved, curspl,
                   next_thread, cur, panicked, holding, arrivals>>

\* line 94: thread_wakeup(sem);
V_wakeup(t) ==
    /\ Runnable(t) /\ pc[t] = "v_wakeup"
    /\ thread_wakeup(SemAddr)
    /\ pc' = [pc EXCEPT ![t] = "v_splx"]
    /\ ev' = NoEv
    /\ UNCHANGED <<semVars, lockVars, cvVars, frames, saved, curspl,
                   next_thread, cur, panicked, holding, arrivals>>

\* line 95: splx(spl); return.
V_splx(t) ==
    /\ Runnable(t) /\ pc[t] = "v_splx"
    /\ splx(t)
    /\ pc' = [pc EXCEPT ![t] = "idle"]
    /\ vDone' = vDone + 1
    /\ ev' = Ret("V", t)
    /\ UNCHANGED <<sem_count, sem_init, sem_freed, pDone, lockVars, cvVars,
                   frames, sleepaddr, next_thread, panicked, holding,
                   arrivals>>

\* sem_destroy, lines 40-46: splhigh().
sem_destroy_call(t) ==
    /\ Runnable(t) /\ pc[t] = "idle"
    /\ splhigh(t)
    /\ pc' = [pc EXCEPT ![t] = "sd_assert"]
    /\ ev' = NoEv
    /\ UNCHANGED <<semVars, lockVars, cvVars, frames, sleepaddr, next_thread,
                   panicked, holding, arrivals>>

\* line 47: assert(thread_hassleepers(sem)==0);
sem_destroy_assert(t) ==
    /\ Runnable(t) /\ pc[t] = "sd_assert"
    /\ IF thread_hassleepers(SemAddr)
          THEN Panic
          ELSE /\ pc' = [pc EXCEPT ![t] = "sd_splx"]
               /\ ev' = NoEv
               /\ UNCHANGED <<semVars, lockVars, cvVars, frames, saved,
                              curspl, sleepaddr, next_thread, cur, panicked,
                              holding, arrivals>>

\* line 48: splx(spl);
sem_destroy_splx(t) ==
    /\ Runnable(t) /\ pc[t] = "sd_splx"
    /\ splx(t)
    /\ pc' = [pc EXCEPT ![t] = "sd_kfree"]
    /\ ev' = NoEv
    /\ UNCHANGED <<semVars, lockVars, cvVars, frames, sleepaddr, next_thread,
                   panicked, holding, arrivals>>

\* lines 59-60: kfree(sem->name); kfree(sem);
sem_destroy_kfree(t) ==
    /\ Runnable(t) /\ pc[t] = "sd_kfree"
    /\ sem_freed' = TRUE
    /\ pc' = [pc EXCEPT ![t] = "idle"]
    /\ ev' = NoEv
    /\ UNCHANGED <<sem_count, sem_init, vDone, pDone, lockVars, cvVars,
                   frames, saved, curspl, sleepaddr, next_thread, cur,
                   panicked, holding, arrivals>>

\* ----------------------------------------------------------------- lock
\* lock_do_i_hold, lines 183-189
lock_do_i_hold(t) == lock_holder = t

\* lock_acquire up to its splhigh(), lines 135-146: no assert reads state.
lock_acquire_enter(t) ==
    /\ splhigh(t)
    /\ pc' = [pc EXCEPT ![t] = "la_while"]

\* a thread calls lock_acquire
lock_acquire_call(t) ==
    /\ Runnable(t) /\ pc[t] = "idle"
    /\ lock_acquire_enter(t)
    /\ ev' = NoEv
    /\ UNCHANGED <<semVars, lockVars, cvVars, frames, sleepaddr, next_thread,
                   panicked, holding, arrivals>>

\* lock_acquire sleeping whenever the lock is occupied, holder or not.
lock_acquire_while_strict(t) ==
    /\ Runnable(t) /\ pc[t] = "la_while"
    /\ IF lock_occupied = 1
          THEN /\ thread_sleep(t, LockAddr)
               /\ pc' = pc
          ELSE /\ pc' = [pc EXCEPT ![t] = "la_occupied"]
               /\ cur' = t
               /\ sleepaddr' = sleepaddr
    /\ ev' = NoEv
    /\ UNCHANGED <<semVars, lockVars, cvVars, frames, saved, curspl,
                   next_thread, panicked, holding, arrivals>>

\* lines 147-150: while (occupied == 1 && holder != curthread) thread_sleep(lock);
lock_acquire_while(t) ==
    /\ Runnable(t) /\ pc[t] = "la_while"
    /\ IF lock_occupied = 1 /\ lock_holder # t
          THEN /\ thread_sleep(t, LockAddr)
               /\ pc' = pc
          ELSE /\ pc' = [pc EXCEPT ![t] = "la_occupied"]
               /\ cur' = t
               /\ sleepaddr' = sleepaddr
    /\ ev' = NoEv
    /\ UNCHANGED <<semVars, lockVars, cvVars, frames, saved, curspl,
                   next_thread, panicked, holding, arrivals>>

\* line 153: lock->lock_occupied = 1;
lock_acquire_occupied(t) ==
    /\ Runnable(t) /\ pc[t] = "la_occupied"
    /\ lock_occupied' = 1
    /\ pc' = [pc EXCEPT ![t] = "la_holder"]
    /\ ev' = NoEv
    /\ UNCHANGED <<semVars, lock_holder, lock_freed, cvVars, frames, saved,
                   curspl, sleepaddr, next_thread, cur, panicked, holding,
                   arrivals>>

\* line 154: lock->lock_holder = curthread;
lock_acquire_holder(t) ==
    /\ Runnable(t) /\ pc[t] = "la_holder"
    /\ lock_holder' = t
    /\ pc' = [pc EXCEPT ![t] = "la_splx"]
    /\ ev' = NoEv
    /\ UNCHANGED <<semVars, lock_occupied, lock_freed, cvVars, frames, saved,
                   curspl, sleepaddr, next_thread, cur, panicked, holding,
                   arrivals>>

\* line 157: splx(spl); return (to cv_wait, or to the thread's own code).
lock_acquire_splx(t) ==
    /\ Runnable(t) /\ pc[t] = "la_splx"
    /\ splx(t)
    /\ pc' = [pc EXCEPT ![t] = ReturnPc(t)]
    /\ frames' = [frames EXCEPT ![t] = PopFrame(t)]
    /\ holding' = [holding EXCEPT ![t] = TRUE]
    /\ ev' = IF frames[t] = <<>> THEN Ret("lock_acquire", t) ELSE NoEv
    /\ UNCHANGED <<semVars, lockVars, cvVars, sleepaddr, next_thread,
                   panicked, arrivals>>

\* lock_release up to its splhigh(), lines 162-168: no ownership check.
lock_release_enter(t) ==
    /\ splhigh(t)
    /\ pc' = [pc EXCEPT ![t] = "lr_occupied"]

\* a thread calls lock_release (any thread, holder or not)
lock_release_call(t) ==
    /\ Runnable(t) /\ pc[t] = "idle"
    /\ lock_release_enter(t)
    /\ ev' = NoEv
    /\ UNCHANGED <<semVars, lockVars, cvVars, frames, sleepaddr, next_thread,
                   panicked, holding, arrivals>>

\* line 171: lock->lock_occupied = 0;
lock_release_occupied(t) ==
    /\ Runnable(t) /\ pc[t] = "lr_occupied"
    /\ lock_occupied' = 0
    /\ pc' = [pc EXCEPT ![t] = "lr_holder"]
    /\ ev' = NoEv
    /\ UNCHANGED <<semVars, lock_holder, lock_freed, cvVars, frames, saved,
                   curspl, sleepaddr, next_thread, cur, panicked, holding,
                   arrivals>>

\* lock_release leaving lock_holder as it is.
lock_release_holder_missing(t) ==
    /\ Runnable(t) /\ pc[t] = "lr_holder"
    /\ pc' = [pc EXCEPT ![t] = "lr_wakeup"]
    /\ ev' = NoEv
    /\ UNCHANGED <<semVars, lockVars, cvVars, frames, saved, curspl,
                   sleepaddr, next_thread, cur, panicked, holding, arrivals>>

\* line 172: lock->lock_holder = NULL;
lock_release_holder(t) ==
    /\ Runnable(t) /\ pc[t] = "lr_holder"
    /\ lock_holder' = NULL
    /\ pc' = [pc EXCEPT ![t] = "lr_wakeup"]
    /\ ev' = NoEv
    /\ UNCHANGED <<semVars, lock_occupied, lock_freed, cvVars, frames, saved,
                   curspl, sleepaddr, next_thread, cur, panicked, holding,
                   arrivals>>

\* lock_release without the wakeup.
lock_release_wakeup_missing(t) ==
    /\ Runnable(t) /\ pc[t] = "lr_wakeup"
    /\ pc' = [pc EXCEPT ![t] = "lr_splx"]
    /\ ev' = NoEv
    /\ UNCHANGED <<semVars, lockVars, cvVars, frames, saved, curspl,
                   sleepaddr, next_thread, cur, panicked, holding, arrivals>>

\* lock_release waking one sleeper only.
lock_release_wakeup_one(t) ==
    /\ Runnable(t) /\ pc[t] = "lr_wakeup"
    /\ IF thread_hassleepers(LockAddr)
          THEN \E u \in Threads :
                  /\ sleepaddr[u] = LockAddr
                  /\ sleepaddr' = [sleepaddr EXCEPT ![u] = NULL]
          ELSE sleepaddr' = sleepaddr
    /\ pc' = [pc EXCEPT ![t] = "lr_splx"]
    /\ ev' = NoEv
    /\ UNCHANGED <<semVars, lockVars, cvVars, frames, saved, curspl,
                   next_thread, cur, panicked, holding, arrivals>>

\* line 175: thread_wakeup(lock);
lock_release_wakeup(t) ==
    /\ Runnable(t) /\ pc[t] = "lr_wakeup"
    /\ thread_wakeup(LockAddr)
    /\ pc' = [pc EXCEPT ![t] = "lr_splx"]
    /\ ev' = NoEv
    /\ UNCHANGED <<semVars, lockVars, cvVars, frames, saved, curspl,
                   next_thread, cur, panicked, holding, arrivals>>

\* lock_release ending with interrupts enabled (spl0) instead of splx(spl).
lock_release_spl0(t) ==
    /\ Runnable(t) /\ pc[t] = "lr_splx"
    /\ curspl' = [curspl EXCEPT ![t] = 0]
    /\ saved' = [saved EXCEPT ![t] = Tail(@)]
    /\ cur' = NULL
    /\ pc' = [pc EXCEPT ![t] = ReturnPc(t)]
    /\ frames' = [frames EXCEPT ![t] = PopFrame(t)]
    /\ holding' = [holding EXCEPT ![t] = FALSE]
    /\ ev' = IF frames[t] = <<>> THEN Ret("lock_release", t) ELSE NoEv
    /\ UNCHANGED <<semVars, lockVars, cvVars, sleepaddr, next_thread,
                   panicked, arrivals>>

\* line 178: splx(spl); return (to cv_wait, or to the thread's own code).
lock_release_splx(t) ==
    /\ Runnable(t) /\ pc[t] = "lr_splx"
    /\ splx(t)
    /\ pc' = [pc EXCEPT ![t] = ReturnPc(t)]
    /\ frames' = [frames EXCEPT ![t] = PopFrame(t)]
    /\ holding' = [holding EXCEPT ![t] = FALSE]
    /\ ev' = IF frames[t] = <<>> THEN Ret("lock_release", t) ELSE NoEv
    /\ UNCHANGED <<semVars, lockVars, cvVars, sleepaddr, next_thread,
                   panicked, arrivals>>

\* lock_destroy, lines 125-133: frees the lock, whatever its state.
lock_destroy(t) ==
    /\ Runnable(t) /\ pc[t] = "idle"
    /\ lock_freed' = TRUE
    /\ ev' = NoEv
    /\ UNCHANGED <<semVars, lock_occupied, lock_holder, cvVars, thrVars,
                   panicked, holding, arrivals>>

\* --------------------------------------------------- condition variable
\* q_remhead(q): the head of the queue (the queue must not be empty).
q_remhead(q) == Head(q)

\* q_addtail(q, x)
q_addtail(q, x) == Append(q, x)

\* q_empty(q)
q_empty(q) == q = <<>>

\* cv_wait, lines 239-253: assert(lock_do_i_hold(lock)).
cv_wait_call(t) ==
    /\ Runnable(t) /\ pc[t] = "idle"
    /\ IF lock_do_i_hold(t)
          THEN /\ pc' = [pc EXCEPT ![t] = "cw_splhigh"]
               /\ ev' = NoEv
               /\ UNCHANGED <<semVars, lockVars, cvVars, frames, saved,
                              curspl, sleepaddr, next_thread, cur, panicked,
                              holding, arrivals>>
          ELSE Panic

\* line 255: spl = splhigh();
cv_wait_splhigh(t) ==
    /\ Runnable(t) /\ pc[t] = "cw_splhigh"
    /\ splhigh(t)
    /\ pc' = [pc EXCEPT ![t] = "cw_release"]
    /\ arrivals' = Append(arrivals, t)
    /\ ev' = NoEv
    /\ UNCHANGED <<semVars, lockVars, cvVars, frames, sleepaddr, next_thread,
                   panicked, holding>>

\* line 257: lock_release(lock);
cv_wait_release(t) ==
    /\ Runnable(t) /\ pc[t] = "cw_release"
    /\ lock_release_enter(t)
    /\ frames' = [frames EXCEPT ![t] = <<"cw_count">> \o @]
    /\ ev' = NoEv
    /\ UNCHANGED <<semVars, lockVars, cvVars, sleepaddr, next_thread,
                   panicked, holding, arrivals>>

\* cv_wait without the count++.
cv_wait_count_missing(t) ==
    /\ Runnable(t) /\ pc[t] = "cw_count"
    /\ pc' = [pc EXCEPT ![t] = "cw_addtail"]
    /\ ev' = NoEv
    /\ UNCHANGED <<semVars, lockVars, cvVars, frames, saved, curspl,
                   sleepaddr, next_thread, cur, panicked, holding, arrivals>>

\* lines 259-261: cv->count++; (q_preallocate changes no contents)
cv_wait_count(t) ==
    /\ Runnable(t) /\ pc[t] = "cw_count"
    /\ cv_count' = cv_count + 1
    /\ pc' = [pc EXCEPT ![t] = "cw_addtail"]
    /\ ev' = NoEv
    /\ UNCHANGED <<semVars, lockVars, thread_queue, frames, saved, curspl,
                   sleepaddr, next_thread, cur, panicked, holding, arrivals>>

\* line 263: q_addtail(cv->thread_queue, curthread);
cv_wait_addtail(t) ==
    /\ Runnable(t) /\ pc[t] = "cw_addtail"
    /\ thread_queue' = q_addtail(thread_queue, t)
    /\ pc' = [pc EXCEPT ![t] = "cw_sleep"]
    /\ ev' = NoEv
    /\ UNCHANGED <<semVars, lockVars, cv_count, frames, saved, curspl,
                   sleepaddr, next_thread, cur, panicked, holding, arrivals>>

\* line 265: thread_sleep(curthread);
cv_wait_sleep(t) ==
    /\ Runnable(t) /\ pc[t] = "cw_sleep"
    /\ thread_sleep(t, t)
    /\ pc' = [pc EXCEPT ![t] = "cw_acquire"]
    /\ ev' = NoEv
    /\ UNCHANGED <<semVars, lockVars, cvVars, frames, saved, curspl,
                   next_thread, panicked, holding, arrivals>>

\* cv_wait without the lock_acquire after waking.
cv_wait_no_reacquire(t) ==
    /\ Runnable(t) /\ pc[t] = "cw_acquire"
    /\ pc' = [pc EXCEPT ![t] = "cw_splx"]
    /\ cur' = t
    /\ ev' = NoEv
    /\ UNCHANGED <<semVars, lockVars, cvVars, frames, saved, curspl,
                   sleepaddr, next_thread, panicked, holding, arrivals>>

\* line 267: lock_acquire(lock);
cv_wait_acquire(t) ==
    /\ Runnable(t) /\ pc[t] = "cw_acquire"
    /\ lock_acquire_enter(t)
    /\ frames' = [frames EXCEPT ![t] = <<"cw_splx">> \o @]
    /\ ev' = NoEv
    /\ UNCHANGED <<semVars, lockVars, cvVars, sleepaddr, next_thread,
                   panicked, holding, arrivals>>

\* cv_wait returning without its splx(spl).
cv_wait_splx_missing(t) ==
    /\ Runnable(t) /\ pc[t] = "cw_splx"
    /\ pc' = [pc EXCEPT ![t] = "idle"]
    /\ ev' = Ret("cv_wait", t)
    /\ UNCHANGED <<semVars, lockVars, cvVars, frames, saved, curspl,
                   sleepaddr, next_thread, cur, panicked, holding, arrivals>>

\* line 269: splx(spl); return.
cv_wait_splx(t) ==
    /\ Runnable(t) /\ pc[t] = "cw_splx"
    /\ splx(t)
    /\ pc' = [pc EXCEPT ![t] = "idle"]
    /\ ev' = Ret("cv_wait", t)
    /\ UNCHANGED <<semVars, lockVars, cvVars, frames, sleepaddr, next_thread,
                   panicked, holding, arrivals>>

\* cv_signal, lines 275-284: assert(lock_do_i_hold(lock)).
cv_signal_assert(t) ==
    IF lock_do_i_hold(t)
       THEN /\ pc' = [pc EXCEPT ![t] = "cs_splhigh"]
            /\ ev' = NoEv
            /\ UNCHANGED <<semVars, lockVars, cvVars, frames, saved, curspl,
                           sleepaddr, next_thread, cur, panicked, holding,
                           arrivals>>
       ELSE Panic

\* a thread calls cv_signal
cv_signal_call(t) ==
    /\ Runnable(t) /\ pc[t] = "idle"
    /\ cv_signal_assert(t)

\* cv_signal entered from cv_broadcast's loop
cv_signal_nested(t) ==
    /\ Runnable(t) /\ pc[t] = "cs_assert"
    /\ cv_signal_assert(t)

\* line 286: spl = splhigh();
cv_signal_splhigh(t) ==
    /\ Runnable(t) /\ pc[t] = "cs_splhigh"
    /\ splhigh(t)
    /\ pc' = [pc EXCEPT ![t] = "cs_count"]
    /\ ev' = NoEv
    /\ UNCHANGED <<semVars, lockVars, cvVars, frames, sleepaddr, next_thread,
                   panicked, holding, arrivals>>

\* line 288: cv->count--;  (no test of the count)
cv_signal_count(t) ==
    /\ Runnable(t) /\ pc[t] = "cs_count"
    /\ cv_count' = cv_count - 1
    /\ pc' = [pc EXCEPT ![t] = "cs_remhead"]
    /\ ev' = NoEv
    /\ UNCHANGED <<semVars, lockVars, thread_queue, frames, saved, curspl,
                   sleepaddr, next_thread, cur, panicked, holding, arrivals>>

\* cv_signal taking the newest waiter (the tail) instead of the head.
cv_signal_remtail(t) ==
    /\ Runnable(t) /\ pc[t] = "cs_remhead"
    /\ IF q_empty(thread_queue)
          THEN Panic
          ELSE /\ next_thread' =
                      [next_thread EXCEPT
                          ![t] = thread_queue[Len(thread_queue)]]
               /\ thread_queue' =
                      SubSeq(thread_queue, 1, Len(thread_queue) - 1)
               /\ pc' = [pc EXCEPT ![t] = "cs_wakeup"]
               /\ ev' = NoEv
               /\ UNCHANGED <<semVars, lockVars, cv_count, frames, saved,
                              curspl, sleepaddr, cur, panicked, holding,
                              arrivals>>

\* line 291: next_thread = q_remhead(cv->thread_queue);
\* q_remhead asserts that the queue is not empty.
cv_signal_remhead(t) ==
    /\ Runnable(t) /\ pc[t] = "cs_remhead"
    /\ IF q_empty(thread_queue)
          THEN Panic
          ELSE /\ next_thread' =
                      [next_thread EXCEPT ![t] = q_remhead(thread_queue)]
               /\ thread_queue' = Tail(thread_queue)
               /\ pc' = [pc EXCEPT ![t] = "cs_wakeup"]
               /\ ev' = NoEv
               /\ UNCHANGED <<semVars, lockVars, cv_count, frames, saved,
                              curspl, sleepaddr, cur, panicked, holding,
                              arrivals>>

\* the threads a thread_wakeup(addr) makes runnable
Sleepers(addr) == {u \in Threads : sleepaddr[u] = addr}

\* cv_signal waking on the lock's address instead of the waiter's.
cv_signal_wakeup_lock(t) ==
    /\ Runnable(t) /\ pc[t] = "cs_wakeup"
    /\ thread_wakeup(LockAddr)
    /\ arrivals' = SelectSeq(arrivals, LAMBDA u : u \notin Sleepers(LockAddr))
    /\ pc' = [pc EXCEPT ![t] = "cs_splx"]
    /\ ev' = NoEv
    /\ UNCHANGED <<semVars, lockVars, cvVars, frames, saved, curspl,
                   next_thread, cur, panicked, holding>>

\* cv_signal without the wakeup.
cv_signal_wakeup_missing(t) ==
    /\ Runnable(t) /\ pc[t] = "cs_wakeup"
    /\ pc' = [pc EXCEPT ![t] = "cs_splx"]
    /\ ev' = NoEv
    /\ UNCHANGED <<semVars, lockVars, cvVars, frames, saved, curspl,
                   sleepaddr, next_thread, cur, panicked, holding, arrivals>>

\* line 294: thread_wakeup(next_thread);
cv_signal_wakeup(t) ==
    /\ Runnable(t) /\ pc[t] = "cs_wakeup"
    /\ thread_wakeup(next_thread[t])
    /\ arrivals' = SelectSeq(arrivals,
                             LAMBDA u : u \notin Sleepers(next_thread[t]))
    /\ pc' = [pc EXCEPT ![t] = "cs_splx"]
    /\ ev' = NoEv
    /\ UNCHANGED <<semVars, lockVars, cvVars, frames, saved, curspl,
                   next_thread, cur, panicked, holding>>

\* line 296: splx(spl); return (to cv_broadcast, or to the thread's code).
cv_signal_splx(t) ==
    /\ Runnable(t) /\ pc[t] = "cs_splx"
    /\ splx(t)
    /\ pc' = [pc EXCEPT ![t] = ReturnPc(t)]
    /\ frames' = [frames EXCEPT ![t] = PopFrame(t)]
    /\ next_thread' = [next_thread EXCEPT ![t] = NULL]
    /\ ev' = IF frames[t] = <<>> THEN Ret("cv_signal", t) ELSE NoEv
    /\ UNCHANGED <<semVars, lockVars, cvVars, sleepaddr, panicked, holding,
                   arrivals>>

\* cv_broadcast, lines 302-307: assert(lock_do_i_hold(lock)).
cv_broadcast_call(t) ==
    /\ Runnable(t) /\ pc[t] = "idle"
    /\ IF lock_do_i_hold(t)
          THEN /\ pc' = [pc EXCEPT ![t] = "cb_while"]
               /\ ev' = NoEv
               /\ UNCHANGED <<semVars, lockVars, cvVars, frames, saved,
                              curspl, sleepaddr, next_thread, cur, panicked,
                              holding, arrivals>>
          ELSE Panic

\* lines 310-315: while (cv->count > 0) cv_signal(cv, lock);
cv_broadcast_while(t) ==
    /\ Runnable(t) /\ pc[t] = "cb_while"
    /\ IF cv_count > 0
          THEN /\ pc' = [pc EXCEPT ![t] = "cs_assert"]
               /\ frames' = [frames EXCEPT ![t] = <<"cb_while">> \o @]
          ELSE /\ pc' = [pc EXCEPT ![t] = "cb_assert"]
               /\ frames' = frames
    /\ ev' = NoEv
    /\ UNCHANGED <<semVars, lockVars, cvVars, saved, curspl, sleepaddr,
                   next_thread, cur, panicked, holding, arrivals>>

\* lines 318-319: assert(cv->count == 0); assert(q_empty(...)); return.
cv_broadcast_assert(t) ==
    /\ Runnable(t) /\ pc[t] = "cb_assert"
    /\ IF cv_count = 0 /\ q_empty(thread_queue)
          THEN /\ pc' = [pc EXCEPT ![t] = "idle"]
               /\ ev' = Ret("cv_broadcast", t)
               /\ UNCHANGED <<semVars, lockVars, cvVars, frames, saved,
                              curspl, sleepaddr, next_thread, cur, panicked,
                              holding, arrivals>>
          ELSE Panic

NextLock ==
    \E t \in Threads :
        \/ lock_acquire_call(t)
        \/ lock_acquire_while(t)
        \/ lock_acquire_occupied(t)
        \/ lock_acquire_holder(t)
        \/ lock_acquire_splx(t)
        \/ lock_release_call(t)
        \/ lock_release_occupied(t)
        \/ lock_release_holder(t)
        \/ lock_release_wakeup(t)
        \/ lock_release_splx(t)
        \/ lock_destroy(t)
        \/ cv_wait_call(t)
        \/ cv_wait_splhigh(t)
        \/ cv_wait_release(t)
        \/ cv_wait_count(t)
        \/ cv_wait_addtail(t)
        \/ cv_wait_sleep(t)
        \/ cv_wait_acquire(t)
        \/ cv_wait_splx(t)
        \/ cv_signal_call(t)
        \/ cv_signal_nested(t)
        \/ cv_signal_splhigh(t)
        \/ cv_signal_count(t)
        \/ cv_signal_remhead(t)
        \/ cv_signal_wakeup(t)
        \/ cv_signal_splx(t)
        \/ cv_broadcast_call(t)
        \/ cv_broadcast_while(t)
        \/ cv_broadcast_assert(t)

NextSem ==
    \E t \in Threads :
        \/ P_call(t)
        \/ P_while(t)
        \/ P_dec(t)
        \/ P_splx(t)
        \/ V_call(t)
        \/ V_inc(t)
        \/ V_wakeup(t)
        \/ V_splx(t)
        \/ sem_destroy_call(t)
        \/ sem_destroy_assert(t)
        \/ sem_destroy_splx(t)
        \/ sem_destroy_kfree(t)

SpecSem == InitSem /\ [][NextSem]_vars

SpecLock == InitLock /\ [][NextLock]_vars

\* ------------------------------------------------- contract-abiding use
\* lock_release called only by the thread the lock records as its holder.
lock_release_call_owner(t) ==
    /\ lock_do_i_hold(t)
    /\ lock_release_call(t)

NextContract ==
    \E t \in Threads :
        \/ lock_acquire_call(t)
        \/ lock_acquire_while(t)
        \/ lock_acquire_occupied(t)
        \/ lock_acquire_holder(t)
        \/ lock_acquire_splx(t)
        \/ lock_release_call_owner(t)
        \/ lock_release_occupied(t)
        \/ lock_release_holder(t)
        \/ lock_release_wakeup(t)
        \/ lock_release_splx(t)
        \/ cv_wait_call(t)
        \/ cv_wait_splhigh(t)
        \/ cv_wait_release(t)
        \/ cv_wait_count(t)
        \/ cv_wait_addtail(t)
        \/ cv_wait_sleep(t)
        \/ cv_wait_acquire(t)
        \/ cv_wait_splx(t)
        \/ cv_signal_call(t)
        \/ cv_signal_nested(t)
        \/ cv_signal_splhigh(t)
        \/ cv_signal_count(t)
        \/ cv_signal_remhead(t)
        \/ cv_signal_wakeup(t)
        \/ cv_signal_splx(t)
        \/ cv_broadcast_call(t)
        \/ cv_broadcast_while(t)
        \/ cv_broadcast_assert(t)

SpecContract == InitLock /\ [][NextContract]_vars

\* ------------------------------------------------- all the operations
\* The semaphore shares no field with the lock and the condition variable:
\* a run works on the one while the others are as created.
SemPcs ==
    {"p_while", "p_dec", "p_splx", "v_inc", "v_wakeup", "v_splx",
     "sd_assert", "sd_splx", "sd_kfree"}

SemAsCreated ==
    /\ sem_init = 0
    /\ semVars = <<0, 0, FALSE, 0, 0>>
    /\ \A t \in Threads : pc[t] \notin SemPcs

LockAsCreated ==
    /\ lockVars = <<0, NULL, FALSE>>
    /\ cvVars = <<0, <<>>>>
    /\ \A t \in Threads : pc[t] \in SemPcs \cup {"idle"}

NextEither ==
    \/ LockAsCreated /\ NextSem
    \/ SemAsCreated /\ NextContract

SpecEither == InitSem /\ [][NextEither]_vars

\* ------------------------------------------------------ fair scheduling
\* P and V only (no sem_destroy).
NextPV ==
    \E t \in Threads :
        \/ P_call(t)
        \/ P_while(t)
        \/ P_dec(t)
        \/ P_splx(t)
        \/ V_call(t)
        \/ V_inc(t)
        \/ V_wakeup(t)
        \/ V_splx(t)

\* The next statement of a P or V that t has already entered.
SemStep(t) ==
    \/ P_while(t)
    \/ P_dec(t)
    \/ P_splx(t)
    \/ V_inc(t)
    \/ V_wakeup(t)
    \/ V_splx(t)

\* The run queue is served in turn: a thread that is ready again and again
\* runs its next statement.  Whether a thread makes a call is its choice.
FairSem == \A t \in Threads : SF_vars(SemStep(t))

SpecSemFair == InitSem /\ [][NextPV]_vars /\ FairSem

\* Callers that cause no fault: the condition variable is used by the
\* lock's holder only, and cv_signal only while a thread waits.
cv_wait_call_holder(t) ==
    /\ lock_do_i_hold(t)
    /\ cv_wait_call(t)

cv_signal_call_waiting(t) ==
    /\ lock_do_i_hold(t)
    /\ cv_count > 0
    /\ cv_signal_call(t)

cv_broadcast_call_holder(t) ==
    /\ lock_do_i_hold(t)
    /\ cv_broadcast_call(t)

\* The next statement of a lock or condition-variable call that t has
\* already entered.
LockStep(t) ==
    \/ lock_acquire_while(t)
    \/ lock_acquire_occupied(t)
    \/ lock_acquire_holder(t)
    \/ lock_acquire_splx(t)
    \/ lock_release_occupied(t)
    \/ lock_release_holder(t)
    \/ lock_release_wakeup(t)
    \/ lock_release_splx(t)
    \/ cv_wait_splhigh(t)
    \/ cv_wait_release(t)
    \/ cv_wait_count(t)
    \/ cv_wait_addtail(t)
    \/ cv_wait_sleep(t)
    \/ cv_wait_acquire(t)
    \/ cv_wait_splx(t)
    \/ cv_signal_nested(t)
    \/ cv_signal_splhigh(t)
    \/ cv_signal_count(t)
    \/ cv_signal_remhead(t)
    \/ cv_signal_wakeup(t)
    \/ cv_signal_splx(t)
    \/ cv_broadcast_while(t)
    \/ cv_broadcast_assert(t)

NextLockFair ==
    \E t \in Threads :
        \/ lock_acquire_call(t)
        \/ lock_release_call_owner(t)
        \/ cv_wait_call_holder(t)
        \/ cv_signal_call_waiting(t)
        \/ cv_broadcast_call_holder(t)
        \/ LockStep(t)

FairLock == \A t \in Threads : SF_vars(LockStep(t))

SpecLockFair == InitLock /\ [][NextLockFair]_vars /\ FairLock

\* ---------------------------------------------------- interrupt context
\* An interrupt handler runs on the stack of the thread it interrupted
\* (curthread = t), with in_interrupt != 0 and interrupts off, so a call it
\* makes runs to its end or to a panic without another thread stepping.
\* It can arrive only while t runs with interrupts enabled.
Interruptible(t) == Runnable(t) /\ cur = NULL /\ curspl[t] = 0

\* P called by a handler: assert(in_interrupt==0), line 75, fails.
intr_P(t) ==
    /\ Interruptible(t)
    /\ Panic

\* cv_wait called by a handler: assert(lock_do_i_hold(lock)), line 247, or
\* assert(in_interrupt == 0), line 253, fails.
intr_cv_wait(t) ==
    /\ Interruptible(t)
    /\ Panic

\* lock_acquire called by a handler, lines 135-160: the in_interrupt assert
\* of line 144 is commented out.  With the lock free, or recorded as held by
\* the interrupted thread, lines 153-154 run and the call returns; otherwise
\* thread_sleep is reached, which may not be called by a handler.
intr_lock_acquire(t) ==
    /\ Interruptible(t)
    /\ IF lock_occupied = 1 /\ lock_holder # t
          THEN Panic
          ELSE /\ lock_occupied' = 1
               /\ lock_holder' = t
               /\ holding' = [holding EXCEPT ![t] = TRUE]
               /\ ev' = Ret("intr_lock_acquire", t)
               /\ UNCHANGED <<semVars, lock_freed, cvVars, thrVars, panicked,
                              arrivals>>

NextIntr ==
    \/ NextContract
    \/ \E t \in Threads :
          \/ intr_P(t)
          \/ intr_cv_wait(t)
          \/ intr_lock_acquire(t)

SpecIntr == InitLock /\ [][NextIntr]_vars

\* ================================================================ claims

\* C1: the semaphore's count is never negative and, whenever no thread is
\* inside a guarded (interrupts-off) region, it equals the initial count
\* plus the V calls that have returned minus the P calls that have returned.
C1_SemConservation ==
    /\ sem_count >= 0
    /\ cur = NULL => sem_count = sem_init + vDone - pDone

\* P and V calls have both returned and a later P sleeps on the empty
\* semaphore.
C1_Witness ==
    /\ cur = NULL
    /\ vDone > 0
    /\ pDone > 0
    /\ thread_hassleepers(SemAddr)

\* C2: no two distinct threads are at the same time between a returned
\* lock_acquire and their own following lock_release.
C2_MutualExclusion ==
    \A a, b \in Threads : a # b => ~(holding[a] /\ holding[b])

\* C3: for a thread outside any call that is able to run, lock_do_i_hold
\* is true exactly when the thread is between a returned lock_acquire and
\* its next lock_release.
C3_HeldByCaller ==
    \A c \in Threads :
        (pc[c] = "idle" /\ cur = NULL) => (lock_do_i_hold(c) <=> holding[c])

\* C4: the thread a cv_signal is about to wake is the oldest waiter (the
\* first whose cv_wait entered its guarded region and has not been woken
\* yet), and that thread is asleep on the condition variable.
C4_FifoWake ==
    \A s \in Threads :
        pc[s] = "cs_wakeup" =>
            /\ arrivals # <<>>
            /\ next_thread[s] = Head(arrivals)
            /\ sleepaddr[next_thread[s]] = next_thread[s]

\* A cv_signal has woken the oldest waiter while a newer one still sleeps.
C4_Witness ==
    \E s \in Threads :
        /\ pc[s] = "cs_splx"
        /\ next_thread[s] # NULL
        /\ sleepaddr[next_thread[s]] = NULL
        /\ thread_queue # <<>>
        /\ \E u \in Threads : u # next_thread[s] /\ sleepaddr[u] = u

\* C5: when cv_broadcast has just returned, the count is 0, the queue is
\* empty and no thread is still asleep on the condition variable.
C5_BroadcastComplete ==
    ev.op = "cv_broadcast" =>
        /\ cv_count = 0
        /\ q_empty(thread_queue)
        /\ arrivals = <<>>
        /\ \A u \in Threads : sleepaddr[u] # u

\* A cv_broadcast has returned after waking two waiters.
C5_Witness ==
    /\ ev.op = "cv_broadcast"
    /\ Cardinality({u \in Threads :
                       pc[u] = "cw_acquire" /\ sleepaddr[u] = NULL}) >= 2

\* C6: a cv_signal that finds the count at 0 changes nothing: the count
\* stays 0, the queue stays empty, nobody is woken and nothing faults.
C6_SignalNoWaiterIsNoop ==
    [][\A t \in Threads :
          (pc[t] = "cs_count" /\ cv_count = 0 /\ pc'[t] # pc[t]) =>
              /\ cv_count' = 0
              /\ q_empty(thread_queue')
              /\ sleepaddr' = sleepaddr
              /\ ~panicked']_vars

\* A waiter has released the lock inside cv_wait and is not yet asleep.
InWaitWindow(w) ==
    \/ pc[w] \in {"cw_count", "cw_addtail", "cw_sleep"}
    \/ pc[w] \in {"lr_holder", "lr_wakeup", "lr_splx"} /\ frames[w] # <<>>

\* The statements of cv_signal and cv_broadcast.
SignalPcs ==
    {"cs_assert", "cs_splhigh", "cs_count", "cs_remhead", "cs_wakeup",
     "cs_splx", "cb_while", "cb_assert"}

\* C7: while a waiter has released the lock inside cv_wait and is not yet
\* enqueued and asleep, no other thread executes a step of cv_signal or
\* cv_broadcast (nor enters one).
C7_NoLostWakeup ==
    [][\A w, s \in Threads :
          (s # w /\ InWaitWindow(w) /\ pc'[s] # pc[s]) =>
              (pc[s] \notin SignalPcs /\ pc'[s] \notin SignalPcs)]_vars

\* A waiter is inside that window while another thread, woken by the
\* waiter's lock_release, is ready to take the lock.
C7_Witness ==
    \E w, s \in Threads :
        /\ s # w
        /\ pc[w] = "cw_count"
        /\ pc[s] = "la_while"
        /\ sleepaddr[s] = NULL

\* C8: when cv_wait has just returned, the lock is held, its holder is the
\* thread that called cv_wait, and lock_do_i_hold is false for every other
\* thread.
C8_WaitReturnsHolding ==
    \A t \in Threads :
        ev = Ret("cv_wait", t) =>
            /\ lock_occupied = 1
            /\ lock_holder = t
            /\ holding[t]
            /\ \A u \in Threads \ {t} : ~lock_do_i_hold(u)

\* A cv_wait has returned.
C8_Witness ==
    /\ ev.op = "cv_wait"
    /\ lock_holder = ev.t

\* C9: a lock_release by a thread that is not the lock's holder does not
\* proceed: it clears neither lock_occupied nor lock_holder and wakes nobody.
C9_ReleaseByNonOwnerFaults ==
    [][\A t \in Threads :
          (pc[t] = "lr_occupied" /\ ~lock_do_i_hold(t)) =>
              /\ pc'[t] = pc[t]
              /\ lock_occupied' = lock_occupied
              /\ lock_holder' = lock_holder
              /\ sleepaddr' = sleepaddr]_vars

\* C10: the lock is freed only while it is unheld with no holder.
C10_DestroyOnlyUnheld ==
    lock_freed => (lock_occupied = 0 /\ lock_holder = NULL)

\* The calls made with in_interrupt != 0.
IntrOps == {"intr_P", "intr_lock_acquire", "intr_cv_wait"}

\* C11: a blocking operation (P, lock_acquire, cv_wait) called by an
\* interrupt handler never returns: it faults, and the lock is left as it
\* was.
C11_BlockingInInterruptFaults == ev.op \notin IntrOps

\* The statements of P.
PPcs == {"p_while", "p_dec", "p_splx"}

\* C12: if a V has just returned while thread x is inside P's wait loop
\* (x slept on the empty semaphore and the V woke it), then x eventually
\* returns from P, unless another thread is inside P to take the unit; and
\* when a P returns with every unit given by a V taken (initial count 0,
\* as many P as V returned), the count is 0.
C12_SemWakeup ==
    /\ \A x \in Threads :
          (ev.op = "V" /\ pc[x] = "p_while")
              ~> (\/ pc[x] = "idle"
                  \/ \E z \in Threads \ {x} : pc[z] \in PPcs)
    /\ [](ev.op = "P" /\ sem_init = 0 /\ vDone = pDone => sem_count = 0)

\* The semaphore was created with count 0, thread x slept in P, the one V
\* so far has returned and x, alone in P, is ready to run again.
C12_Witness ==
    \E x \in Threads :
        /\ ev.op = "V"
        /\ pc[x] = "p_while"
        /\ sleepaddr[x] = NULL
        /\ sem_init = 0 /\ vDone = 1 /\ pDone = 0
        /\ \A z \in Threads \ {x} : pc[z] \notin PPcs

\* The statements of lock_acquire.
AcquirePcs == {"la_while", "la_occupied", "la_holder", "la_splx"}

\* Another thread than y is inside lock_acquire.
OtherAcquirer(y) == \E z \in Threads \ {y} : pc[z] \in AcquirePcs

\* C13: if a lock_release has just returned while thread y is inside its
\* own lock_acquire (y slept on the held lock and the release woke it),
\* then y eventually returns from lock_acquire as the lock's holder, with
\* lock_do_i_hold true for y and false for every other thread, unless
\* another thread is inside lock_acquire to take the lock.
C13_LockHandOff ==
    \A y \in Threads :
        (ev.op = "lock_release" /\ pc[y] = "la_while" /\ frames[y] = <<>>)
            ~> (\/ /\ ev = Ret("lock_acquire", y)
                   /\ lock_do_i_hold(y)
                   /\ \A x \in Threads \ {y} : ~lock_do_i_hold(x)
                \/ OtherAcquirer(y))

\* Thread x has released the lock; y, which slept in lock_acquire, is ready
\* to run again and no other thread is in lock_acquire.
C13_Witness ==
    \E x, y \in Threads :
        /\ x # y
        /\ ev = Ret("lock_release", x)
        /\ pc[y] = "la_while" /\ frames[y] = <<>>
        /\ sleepaddr[y] = NULL
        /\ lock_occupied = 0
        /\ ~OtherAcquirer(y)

\* Thread x is in cv_wait and a cv_signal has taken it off the queue.
Signalled(x) ==
    /\ \/ pc[x] = "cw_acquire"
       \/ pc[x] = "la_while" /\ frames[x] # <<>>
    /\ \A i \in 1..Len(thread_queue) : thread_queue[i] # x

\* C14: if a lock_release has just returned while thread x is in cv_wait,
\* taken off the queue by a cv_signal, then x eventually returns from
\* cv_wait holding the lock, unless another thread is inside lock_acquire
\* to take the lock; and whenever a cv_wait returns, the count is the number
\* of threads still asleep on the condition variable (0 when x was the only
\* waiter).
C14_CvWakeup ==
    /\ \A x \in Threads :
          (ev.op = "lock_release" /\ Signalled(x))
              ~> (\/ ev = Ret("cv_wait", x) /\ lock_do_i_hold(x)
                  \/ OtherAcquirer(x))
    /\ [](ev.op = "cv_wait" =>
              cv_count = Cardinality({u \in Threads : sleepaddr[u] = u}))

\* Thread x waited, thread y signalled and has released the lock; x is
\* awake, nobody else waits or is in lock_acquire.
C14_Witness ==
    \E x, y \in Threads :
        /\ x # y
        /\ ev = Ret("lock_release", y)
        /\ pc[x] = "cw_acquire"
        /\ Signalled(x)
        /\ sleepaddr[x] = NULL
        /\ cv_count = 0
        /\ ~OtherAcquirer(x)

\* C15: whenever no thread is inside a guarded region, lock_occupied is 1
\* exactly when lock_holder is a thread; that thread is between a returned
\* lock_acquire (or the one inside cv_wait) and its own next lock_release,
\* and a lock_acquire that has just returned left its caller as the holder.
C15_LockStateInvariant ==
    cur = NULL =>
        /\ lock_occupied \in {0, 1}
        /\ lock_occupied = 1 <=> lock_holder # NULL
        /\ lock_holder # NULL => holding[lock_holder]
        /\ \A t \in Threads : ev = Ret("lock_acquire", t) => lock_holder = t

\* Outside any guarded region the lock is held by a thread whose
\* lock_acquire has returned, while another thread sleeps on the lock.
C15_Witness ==
    \E t, u \in Threads :
        /\ cur = NULL
        /\ lock_occupied = 1
        /\ lock_holder = t
        /\ pc[t] = "idle"
        /\ sleepaddr[u] = LockAddr

\* Thread t is in the waiter queue.
InQueue(t) == \E i \in 1..Len(thread_queue) : thread_queue[i] = t

\* C16: whenever no thread is inside a guarded region, the count is not
\* negative and equals the length of the waiter queue, no thread is in the
\* queue twice, and a thread is in the queue exactly while it is asleep in
\* its own cv_wait, not yet woken.
C16_CvStateInvariant ==
    cur = NULL =>
        /\ cv_count >= 0
        /\ cv_count = Len(thread_queue)
        /\ \A i, j \in 1..Len(thread_queue) :
              i # j => thread_queue[i] # thread_queue[j]
        /\ \A t \in Threads :
              InQueue(t) <=> (pc[t] = "cw_acquire" /\ sleepaddr[t] = t)

\* Outside any guarded region one thread is queued and asleep in cv_wait
\* while another, woken by a cv_signal, is off the queue and has not yet
\* reacquired the lock.
C16_Witness ==
    \E t, u \in Threads :
        /\ cur = NULL
        /\ cv_count = 1
        /\ InQueue(t) /\ sleepaddr[t] = t
        /\ pc[u] = "cw_acquire" /\ sleepaddr[u] = NULL /\ ~InQueue(u)

\* C17: a thread never sleeps on a lock that records it as the holder, so
\* its lock_acquire of a lock it holds goes through; when a lock_acquire
\* has just returned its caller is the holder; the lock keeps no count
\* (lock_occupied is 0 or 1), and when a lock_release has just returned the
\* lock is unoccupied with no holder, however many lock_acquire calls of
\* the releasing thread went before.
C17_ReentrantAcquire ==
    /\ lock_occupied \in {0, 1}
    /\ \A t \in Threads :
          /\ sleepaddr[t] = LockAddr => ~lock_do_i_hold(t)
          /\ ev = Ret("lock_acquire", t) =>
                (lock_occupied = 1 /\ lock_do_i_hold(t))
          /\ ev = Ret("lock_release", t) =>
                (lock_occupied = 0 /\ lock_holder = NULL)

\* A thread whose earlier lock_acquire returned, and which the lock records
\* as holder, has passed the test of a further lock_acquire without
\* sleeping.
C17_Witness ==
    \E t \in Threads :
        /\ pc[t] = "la_occupied"
        /\ frames[t] = <<>>
        /\ holding[t]
        /\ lock_occupied = 1
        /\ lock_do_i_hold(t)

\* The statements that run with interrupts off and at which a thread cannot
\* have been switched out (all but the three reached from thread_sleep).
GuardedPcs ==
    {"p_dec", "p_splx", "v_inc", "v_wakeup", "v_splx", "sd_assert",
     "sd_splx", "la_occupied", "la_holder", "la_splx", "lr_occupied",
     "lr_holder", "lr_wakeup", "lr_splx", "cw_release", "cw_count",
     "cw_addtail", "cw_sleep", "cw_splx", "cs_count", "cs_remhead",
     "cs_wakeup", "cs_splx"}

\* The statements a thread reaches back from thread_sleep.
WakePcs == {"p_while", "la_while", "cw_acquire"}

\* The interrupt level is as the calls in progress leave it.
LevelRestored(t) ==
    /\ pc[t] = "idle" => (curspl[t] = 0 /\ saved[t] = <<>>)
    /\ pc[t] \in {"cb_while", "cb_assert", "cs_assert", "sd_kfree"} =>
          (curspl[t] = 0 /\ saved[t] = <<>>)
    /\ pc[t] \in {"cw_count", "cw_splx"} =>
          (curspl[t] = 1 /\ saved[t] = <<0>>)
    /\ pc[t] \in GuardedPcs \cup WakePcs => curspl[t] = 1
    /\ pc[t] \in GuardedPcs => (cur = t /\ sleepaddr[t] = NULL)

\* C18: every operation that has returned left the interrupt level as it
\* found it: 0 for a thread outside any call and between the cv_signal
\* calls of cv_broadcast, masked with cv_wait's own saved level after the
\* lock_release and the lock_acquire inside cv_wait; a thread at a guarded
\* statement runs with interrupts off, and while it does no other thread
\* executes a statement (another thread changes only by being woken).
C18_MaskDiscipline ==
    /\ [](\A t \in Threads : LevelRestored(t))
    /\ [][\A t, u \in Threads :
            (t # u /\ cur = t) =>
                /\ pc'[u] = pc[u]
                /\ curspl'[u] = curspl[u]
                /\ saved'[u] = saved[u]
                /\ sleepaddr'[u] \in {sleepaddr[u], NULL}]_vars

\* Inside cv_wait the nested lock_acquire has returned to a caller that is
\* still masked, while another thread, awake and ready inside its own
\* lock_acquire, has to wait for the processor.
C18_Witness ==
    \E t, u \in Threads :
        /\ pc[t] = "cw_splx"
        /\ cur = t
        /\ curspl[t] = 1
        /\ saved[t] = <<0>>
        /\ pc[u] = "la_while"
        /\ sleepaddr[u] = NULL

\* C19: after V's thread_wakeup no thread sleeps on the semaphore; a thread
\* sleeps on it only at P's loop test, which it repeats when woken, and gets
\* past the test only with count > 0; so whenever no thread is inside a
\* guarded region, count > 0 implies that no thread sleeps on the semaphore.
C19_WakeAllAndRecheck ==
    /\ \A t \in Threads :
          /\ pc[t] = "v_splx" => ~thread_hassleepers(SemAddr)
          /\ sleepaddr[t] = SemAddr => pc[t] = "p_while"
          /\ pc[t] = "p_dec" => sem_count > 0
    /\ (cur = NULL /\ sem_count > 0) => ~thread_hassleepers(SemAddr)

\* One V has returned, count is 1, and the two threads that slept in P are
\* both awake at the loop test.
C19_Witness ==
    \E a, b \in Threads :
        /\ a # b
        /\ ev.op = "V"
        /\ sem_init = 0 /\ vDone = 1 /\ sem_count = 1
        /\ pc[a] = "p_while" /\ sleepaddr[a] = NULL
        /\ pc[b] = "p_while" /\ sleepaddr[b] = NULL

\* C20: after the thread_wakeup of a lock_release (the one inside cv_wait
\* too) no thread sleeps on the lock; a thread sleeps on the lock only at
\* the loop test of lock_acquire; and whenever no thread is inside a guarded
\* region, a thread asleep on the lock finds it occupied with another
\* thread as holder, so an unoccupied lock has no sleeper.
C20_NoStrandedLockWaiter ==
    /\ \A t \in Threads :
          /\ pc[t] = "lr_splx" => ~thread_hassleepers(LockAddr)
          /\ sleepaddr[t] = LockAddr => pc[t] = "la_while"
          /\ (cur = NULL /\ sleepaddr[t] = LockAddr) =>
                (lock_occupied = 1 /\ lock_holder \in Threads \ {t})
    /\ (cur = NULL /\ lock_occupied = 0) => ~thread_hassleepers(LockAddr)

\* The lock_release inside a cv_wait has woken the two threads that slept
\* in lock_acquire.
C20_Witness ==
    \E t, a, b \in Threads :
        /\ a # b
        /\ pc[t] = "lr_splx" /\ frames[t] # <<>>
        /\ pc[a] = "la_while" /\ sleepaddr[a] = NULL
        /\ pc[b] = "la_while" /\ sleepaddr[b] = NULL
====
